---- MODULE Spec2Model ----
(***************************************************************************)
(* State-machine model of the doctors-portal API (src/main.py): the        *)
(* document-store collections, the slot-availability resolvers, the        *)
(* create-booking handler at the granularity of its store calls, and the   *)
(* token / admin gate.                                                     *)
(***************************************************************************)
EXTENDS Integers, Sequences, FiniteSets, TLC

(***************************************************************************)
(* Bounds and input domains.                                               *)
(***************************************************************************)
MaxBookings == 2
MaxUsers == 2
MaxDoctors == 1
MaxPayments == 1
MaxTokens == 1
\* The documents the store holds in all, in the specification of every handler.
MaxStored == 3
\* Tokens are issued during the first MaxTicks ticks of the clock (or after
\* the instants modelled around the end of their validity).
MaxTicks == 1
\* Clock resolution: datetime.utcnow() is finer than the whole seconds of a
\* token's exp claim.
TicksPerSecond == 2

\* JWT_EXPIRATION_TIME = timedelta(days=2), in seconds.
JWT_EXPIRATION_TIME == 172800

Requests == {"r1", "r2"}

\* The _ids user documents can have.
UserIds == 1..MaxUsers

Emails == {"a@x", "b@x"}

\* A field that a stored document or a response does not carry.
NoValue == "<none>"

\* appointmentCollection is seeded outside the program and no handler writes
\* it: an ordered list of {name, slots, price} documents.
appointment_options_collection ==
    << [name |-> "Cavity Filling",  slots |-> <<"9:00", "10:00", "11:00">>, price |-> 120],
       [name |-> "Teeth Cleaning", slots |-> <<"10:00">>,                  price |-> 80] >>

\* class Booking: the fields the handlers read (patient, phone and price are
\* carried through unread).
NewBooking(d, t, s, e) ==
    [appointmentDate |-> d, treatment |-> t, slot |-> s, email |-> e]

\* Create-booking payloads of the booking specification.
BookingInputs ==
    { NewBooking("2024-05-01", "Cavity Filling",  "9:00",  "a@x"),
      NewBooking("2024-05-01", "Cavity Filling",  "10:00", "a@x"),
      NewBooking("2024-05-01", "Cavity Filling",  "9:00",  "b@x"),
      NewBooking("2024-05-02", "Cavity Filling",  "11:00", "a@x"),
      NewBooking("2024-05-01", "Teeth Cleaning", "10:00", "a@x"),
      NewBooking("2024-05-02", "Root Canal",     "13:00", "b@x") }

\* Values of the resolvers' date parameter: dates with and without bookings,
\* and strings that begin with "$".
QueryDates == {"2024-05-01", "2024-05-02", "2024-05-03", "$appointmentDate", "$slot"}

VARIABLES
    bookings,   \* bookingCollaction, in insertion order (_id = position)
    users,      \* usersCollaction: the documents by their _id
    doctors,    \* doctorsCollactions, documents with their _id
    doctor_oid, \* the last _id the store handed to a doctor document
    payments,   \* paymentCollection
    now,        \* the clock, in ticks
    pyjwt,      \* which expiry comparison the installed jwt library makes
    issued,     \* the tokens handed out so far, each with its time of issue
    inflight,   \* per create-booking request: where it is between its store calls
    last        \* the step taken last and the response it produced, if any

vars == <<bookings, users, doctors, doctor_oid, payments, now, pyjwt, issued, inflight, last>>

store == <<bookings, users, doctors, doctor_oid, payments>>
auth == <<now, pyjwt, issued>>

Idle == [pc |-> "idle", booking |-> NoValue, id |-> 0]

Range(s) == {s[i] : i \in DOMAIN s}

(***************************************************************************)
(* Slot availability resolvers.                                            *)
(***************************************************************************)

\* booking_collection.find({"appointmentDate": date}): exact string equality.
FindByDate(bs, date) == SelectSeq(bs, LAMBDA b : b.appointmentDate = date)

\* Mutant of RemainingSlots: the bookings of the date are not filtered by
\* treatment.
RemainingSlots_AnyTreatment(option, already_booked) ==
    LET booked_slots == {b.slot : b \in Range(already_booked)}
    IN  SelectSeq(option.slots, LAMBDA slot : slot \notin booked_slots)

\* One option of handle_get_appointment_options' loop.
RemainingSlots(option, already_booked) ==
    LET booked_slots == {b.slot : b \in {x \in Range(already_booked) : x.treatment = option.name}}
    IN  SelectSeq(option.slots, LAMBDA slot : slot \notin booked_slots)

handle_get_appointment_options_result(opts, bs, date) ==
    LET already_booked == FindByDate(bs, date)
    IN  [i \in DOMAIN opts |->
            [name  |-> opts[i].name,
             slots |-> RemainingSlots(opts[i], already_booked),
             price |-> opts[i].price]]

\* An operand of the aggregation's $expr: a string that begins with "$" names
\* a field of the document under test, any other string is a literal.
ExprOperand(operand, doc) ==
    CASE operand = "$appointmentDate" -> doc.appointmentDate
      [] operand = "$treatment"       -> doc.treatment
      [] operand = "$slot"            -> doc.slot
      [] operand = "$email"           -> doc.email
      [] OTHER                        -> operand

\* $lookup from bookingCollaction: localField name = foreignField treatment,
\* then the sub-pipeline {"$match": {"$expr": {"$eq": ["$appointmentDate", data]}}}.
Lookup(option, bs, data) ==
    SelectSeq(bs, LAMBDA b : /\ b.treatment = option.name
                             /\ ExprOperand("$appointmentDate", b) = ExprOperand(data, b))

\* $setDifference: the elements of the first array that are not in the
\* second, as a set.
SetDifference(slots, booked) == {s \in Range(slots) : s \notin booked}

\* The store returns a $setDifference result as an array without duplicates
\* whose element order is unspecified.
ArraysOf(S) == {f \in [1..Cardinality(S) -> S] : Range(f) = S}

V2Entries(option, bs, data) ==
    LET booked == {b.slot : b \in Range(Lookup(option, bs, data))}
    IN  { [name |-> option.name, slots |-> sl, price |-> option.price] :
            sl \in ArraysOf(SetDifference(option.slots, booked)) }

\* Every result the aggregation of handle_get_v2_appointment_options can
\* return for the first n options.
RECURSIVE V2Results(_, _, _, _)
V2Results(opts, bs, data, n) ==
    IF n = 0 THEN {<<>>}
    ELSE {Append(body, entry) : body \in V2Results(opts, bs, data, n - 1),
                                entry \in V2Entries(opts[n], bs, data)}

handle_get_v2_appointment_options_results(opts, bs, data) ==
    V2Results(opts, bs, data, Len(opts))

Response(op, arg, status, detail, body) ==
    [op |-> op, arg |-> arg, status |-> status, detail |-> detail, body |-> body]

\* Response bodies and request arguments are tagged by their JSON shape: no
\* body, one document, an array of documents.
NoBody == [none |-> TRUE]
Document(doc) == [doc |-> doc]
Documents(docs) == [list |-> docs]

\* A step of a handler that is still awaiting the store: no response yet.
Pending(op, arg) == Response(op, arg, 0, NoValue, NoBody)

handle_get_appointment_options(date) ==
    /\ last' = Response("handle_get_appointment_options", [date |-> date], 200, NoValue,
                        Documents(handle_get_appointment_options_result(
                            appointment_options_collection, bookings, date)))
    /\ UNCHANGED <<store, auth, inflight>>

handle_get_v2_appointment_options(data) ==
    /\ \E body \in handle_get_v2_appointment_options_results(
                        appointment_options_collection, bookings, data) :
          last' = Response("handle_get_v2_appointment_options", [data |-> data], 200,
                           NoValue, Documents(body))
    /\ UNCHANGED <<store, auth, inflight>>

(***************************************************************************)
(* Create booking, one action per store call.                              *)
(***************************************************************************)

\* The filter of the pre-insert find_one.
SameTriple(doc, booking) ==
    /\ doc.appointmentDate = booking.appointmentDate
    /\ doc.email = booking.email
    /\ doc.treatment = booking.treatment

existing_booking(bs, booking) == \E i \in DOMAIN bs : SameTriple(bs[i], booking)

\* Requests that passed the existence check and have not inserted yet.
AwaitingInsert == {r \in Requests : inflight[r].pc = "insert_one"}

\* await booking_collection.find_one({...}); if existing_booking: raise
handle_post_booking_find_one(r, booking) ==
    /\ inflight[r].pc = "idle"
    /\ Len(bookings) + Cardinality(AwaitingInsert) < MaxBookings
    /\ IF existing_booking(bookings, booking)
         THEN /\ last' = Response("handle_post_booking.find_one", booking, 200,
                                  "You already have a booking on", NoBody)
              /\ UNCHANGED <<store, auth, inflight>>
         ELSE /\ inflight' = [inflight EXCEPT ![r] =
                                 [pc |-> "insert_one", booking |-> booking, id |-> 0]]
              /\ last' = Pending("handle_post_booking.find_one", booking)
              /\ UNCHANGED <<store, auth>>

\* result = await booking_collection.insert_one(booking.dict())
handle_post_booking_insert_one(r) ==
    /\ inflight[r].pc = "insert_one"
    /\ bookings' = Append(bookings, inflight[r].booking)
    /\ inflight' = [inflight EXCEPT ![r] =
                       [pc |-> "return", booking |-> inflight[r].booking,
                        id |-> Len(bookings) + 1]]
    /\ last' = Pending("handle_post_booking.insert_one", inflight[r].booking)
    /\ UNCHANGED <<users, doctors, doctor_oid, payments, auth>>

\* return await booking_collection.find_one({"_id": inserted_id})
handle_post_booking_return(r) ==
    /\ inflight[r].pc = "return"
    /\ last' = Response("handle_post_booking.return", inflight[r].booking, 200, NoValue,
                        Document(bookings[inflight[r].id]))
    /\ inflight' = [inflight EXCEPT ![r] = Idle]
    /\ UNCHANGED <<store, auth>>

WindowTicks == JWT_EXPIRATION_TIME * TicksPerSecond

(***************************************************************************)
(* Auth gate.                                                              *)
(***************************************************************************)

\* A whitespace-free piece of text as a request carries it: either plain
\* text, or an encoded token {email, exp} signed with some key.
TextWord(t) == [text |-> t, email |-> NoValue, exp |-> 0, sig |-> "none"]
JwtWord(email, exp, key) == [text |-> "<jwt>", email |-> email, exp |-> exp, sig |-> key]

\* A query parameter the request does not carry.
Absent == TextWord("<absent>")

\* Mutant of create_jwt_token: timedelta(hours=2) for timedelta(days=2).
create_jwt_token_Hours(email, t) ==
    JwtWord(email, (t + (JWT_EXPIRATION_TIME \div 24) * TicksPerSecond) \div TicksPerSecond,
            "JWT_SECRET")

\* datetime.utcnow() + JWT_EXPIRATION_TIME, encoded by jwt.encode as whole
\* seconds (the exp claim is an integer).
create_jwt_token(email, t) ==
    JwtWord(email, (t + JWT_EXPIRATION_TIME * TicksPerSecond) \div TicksPerSecond, "JWT_SECRET")

\* The expiry check of jwt.decode at time t: releases before 2.6 compare exp
\* with the clock cut to whole seconds and accept exp = now; later ones
\* compare with the unrounded clock and reject exp = now.
Expired(exp, t, lib) ==
    IF lib = "exp < int(now)" THEN exp < t \div TicksPerSecond
                              ELSE exp * TicksPerSecond <= t

Ok(email) == [status |-> 200, detail |-> NoValue, email |-> email]
Fail(status, detail) == [status |-> status, detail |-> detail, email |-> NoValue]

get_current_user(token, t, lib) ==
    IF token.sig # "JWT_SECRET"
      THEN Fail(401, "Invalid token")
      ELSE IF Expired(token.exp, t, lib)
             THEN Fail(401, "Invalid token: Signature has expired")
             ELSE Ok(token.email)

\* The authorization value: absent (None), or a string given here by its
\* whitespace-separated words; blank tells the empty string (FALSE) from a
\* string of whitespace only (TRUE) when there are no words.
NoHeader == [given |-> FALSE, words |-> <<>>, blank |-> FALSE]
Header(words, blank) == [given |-> TRUE, words |-> words, blank |-> blank]

\* Mutant of Lower: the scheme is compared as given.
Lower_AsIs(text) == text

\* str.lower() on the texts the model uses.
Lower(text) ==
    CASE text \in {"Bearer", "BEARER", "bearer"} -> "bearer"
      [] text = "Basic" -> "basic"
      [] OTHER -> text

verify_jwt(authorization, t, lib) ==
    IF ~authorization.given \/ (authorization.words = <<>> /\ ~authorization.blank)
      THEN Fail(401, "Not authenticated")
      ELSE IF Len(authorization.words) # 2
             THEN Fail(401, "Invalid authorization header")
             ELSE IF Lower(authorization.words[1].text) # "bearer"
                    THEN Fail(401, "Invalid authentication scheme")
                    ELSE get_current_user(authorization.words[2], t, lib)

\* users_collection.find_one({"email": e}) returns one of the matching
\* documents; which one, when several match, the store does not specify.
FindUsersByEmail(us, email) == {i \in DOMAIN us : us[i].email = email}

\* Mutant of verify_admin: the role of the user found is not looked at.
verify_admin_AnyUser(us, user_email) ==
    IF FindUsersByEmail(us, user_email) = {}
      THEN {Fail(403, "Forbidden access")}
      ELSE {Ok(user_email)}

\* Every outcome verify_admin can have for an identity.
verify_admin(us, user_email) ==
    IF FindUsersByEmail(us, user_email) = {}
      THEN {Fail(403, "Forbidden access")}
      ELSE {IF us[i].role # "admin" THEN Fail(403, "Forbidden access") ELSE Ok(user_email) :
               i \in FindUsersByEmail(us, user_email)}

\* dependencies=[Depends(verify_jwt), Depends(verify_admin)]: verify_jwt on
\* the authorization parameter, then get_current_user on the token parameter
\* (a required parameter: 422 without it), then verify_admin on its email.
AdminGate(us, authorization, token, t, lib) ==
    LET j == verify_jwt(authorization, t, lib)
        u == get_current_user(token, t, lib)
    IN  IF j.status # 200 THEN {j}
        ELSE IF token = Absent THEN {Fail(422, "field required")}
        ELSE IF u.status # 200 THEN {u}
        ELSE verify_admin(us, u.email)

Credentials(authorization, token) == [authorization |-> authorization, token |-> token]

Refused(op, arg, g) ==
    /\ last' = Response(op, arg, g.status, g.detail, NoBody)
    /\ UNCHANGED <<store, auth, inflight>>

handle_get_jwt(email) ==
    IF FindUsersByEmail(users, email) = {}
      THEN /\ last' = Response("handle_get_jwt", [email |-> email], 401, "Unauthorized", NoBody)
           /\ UNCHANGED <<store, auth, inflight>>
      ELSE LET grant == [token |-> create_jwt_token(email, now), email |-> email, iat |-> now]
           IN  \* Bound: tokens are issued early, or after the modelled window.
               /\ now <= MaxTicks \/ now > WindowTicks + MaxTicks + TicksPerSecond
               /\ grant \in issued \/ Cardinality(issued) < MaxTokens
               /\ issued' = issued \cup {grant}
               /\ last' = Response("handle_get_jwt", [email |-> email], 200, NoValue,
                                   [token |-> grant.token])
               /\ UNCHANGED <<store, now, pyjwt, inflight>>

\* Mutant of handle_get_bookings: the requested email is not compared with the
\* email of the token.
handle_get_bookings_NoEmailCheck(email, token) ==
    LET u == get_current_user(token, now, pyjwt)
        op == "handle_get_bookings"
        arg == [email |-> email, token |-> token]
    IN  IF token = Absent THEN Refused(op, arg, Fail(422, "field required"))
        ELSE IF u.status # 200 THEN Refused(op, arg, u)
        ELSE /\ last' = Response(op, arg, 200, NoValue,
                                 Documents(SelectSeq(bookings, LAMBDA b : b.email = email)))
             /\ UNCHANGED <<store, auth, inflight>>

handle_get_bookings(email, token) ==
    LET u == get_current_user(token, now, pyjwt)
        op == "handle_get_bookings"
        arg == [email |-> email, token |-> token]
    IN  IF token = Absent THEN Refused(op, arg, Fail(422, "field required"))
        ELSE IF u.status # 200 THEN Refused(op, arg, u)
        ELSE IF email # u.email THEN Refused(op, arg, Fail(403, "Forbidden"))
        ELSE /\ last' = Response(op, arg, 200, NoValue,
                                 Documents(SelectSeq(bookings, LAMBDA b : b.email = email)))
             /\ UNCHANGED <<store, auth, inflight>>

handle_get_booking_by_id(id) ==
    /\ last' = IF id \in DOMAIN bookings
                 THEN Response("handle_get_booking_by_id", [id |-> id], 200, NoValue,
                               Document(bookings[id]))
                 ELSE Response("handle_get_booking_by_id", [id |-> id], 404,
                               "Booking not found", NoBody)
    /\ UNCHANGED <<store, auth, inflight>>

handle_create_payment_intent(booking) ==
    /\ last' = Response("handle_create_payment_intent", booking, 200, NoValue,
                        [clientSecret |-> "test_client_secret"])
    /\ UNCHANGED <<store, auth, inflight>>

handle_post_payment(payment) ==
    /\ Len(payments) < MaxPayments
    /\ payments' = Append(payments, payment)
    /\ last' = Response("handle_post_payment", payment, 200, NoValue, Document(payment))
    /\ UNCHANGED <<bookings, users, doctors, doctor_oid, auth, inflight>>

handle_get_appointment_specialty ==
    /\ last' = Response("handle_get_appointment_specialty", NoBody, 200, NoValue,
                        [names |-> {o.name : o \in Range(appointment_options_collection)}])
    /\ UNCHANGED <<store, auth, inflight>>

(***************************************************************************)
(* Users and doctors.                                                      *)
(***************************************************************************)

\* The _id the store gives an inserted user document: one that no document
\* has (ids are opaque, so the least unused one stands for any).
FreshUserId(us) ==
    CHOOSE id \in UserIds \ DOMAIN us : \A other \in UserIds \ DOMAIN us : id <= other

InsertUser(us, id, doc) == [i \in DOMAIN us \cup {id} |-> IF i = id THEN doc ELSE us[i]]

handle_post_user(user) ==
    /\ DOMAIN users # UserIds
    /\ users' = InsertUser(users, FreshUserId(users), user)
    /\ last' = Response("handle_post_user", user, 200, NoValue, Document(user))
    /\ UNCHANGED <<bookings, doctors, doctor_oid, payments, auth, inflight>>

handle_get_user_admin_by_email(email) ==
    /\ \E isAdmin \in IF FindUsersByEmail(users, email) = {} THEN {FALSE}
                      ELSE {users[i].role = "admin" : i \in FindUsersByEmail(users, email)} :
          last' = Response("handle_get_user_admin_by_email", [email |-> email], 200, NoValue,
                           [isAdmin |-> isAdmin])
    /\ UNCHANGED <<store, auth, inflight>>

\* User(**user) needs name, email and role: a document without them (one that
\* the upsert of handle_put_user_admin_by_id created) fails the response model.
handle_get_users(authorization, token) ==
    \E g \in AdminGate(users, authorization, token, now, pyjwt) :
       LET op == "handle_get_users"
           arg == Credentials(authorization, token)
       IN  IF g.status # 200 THEN Refused(op, arg, g)
           ELSE IF \E i \in DOMAIN users : users[i].name = NoValue \/ users[i].email = NoValue
                  THEN Refused(op, arg, Fail(500, "Internal Server Error"))
                  ELSE /\ last' = Response(op, arg, 200, NoValue, Documents(users))
                       /\ UNCHANGED <<store, auth, inflight>>

\* Mutant of UpsertAdmin: upsert=True left out.
UpsertAdmin_UpdateOnly(us, id) ==
    IF id \in DOMAIN us THEN [us EXCEPT ![id].role = "admin"] ELSE us

\* Mutant of UpsertAdmin: the document is replaced, not updated with $set.
UpsertAdmin_Replace(us, id) ==
    InsertUser(us, id, [name |-> NoValue, email |-> NoValue, role |-> "admin"])

\* update_one({"_id": id}, {"$set": {"role": "admin"}}, upsert=True)
UpsertAdmin(us, id) ==
    IF id \in DOMAIN us
      THEN [us EXCEPT ![id].role = "admin"]
      ELSE InsertUser(us, id, [name |-> NoValue, email |-> NoValue, role |-> "admin"])

handle_put_user_admin_by_id(authorization, token, id) ==
    \E g \in AdminGate(users, authorization, token, now, pyjwt) :
       LET op == "handle_put_user_admin_by_id"
           arg == [authorization |-> authorization, token |-> token, id |-> id]
       IN  IF g.status # 200 THEN Refused(op, arg, g)
           ELSE /\ users' = UpsertAdmin(users, id)
                /\ last' = Response(op, arg, 200, NoValue, Document(
                      [modified_count |-> IF id \in DOMAIN users /\ users[id].role # "admin"
                                            THEN 1 ELSE 0,
                       upserted_id |-> IF id \in DOMAIN users THEN 0 ELSE id]))
                /\ UNCHANGED <<bookings, doctors, doctor_oid, payments, auth, inflight>>

handle_get_doctors(authorization, token) ==
    \E g \in AdminGate(users, authorization, token, now, pyjwt) :
       LET op == "handle_get_doctors"
           arg == Credentials(authorization, token)
       IN  IF g.status # 200 THEN Refused(op, arg, g)
           ELSE /\ last' = Response(op, arg, 200, NoValue, Documents(doctors))
                /\ UNCHANGED <<store, auth, inflight>>

handle_delete_doctor_by_id(authorization, token, id) ==
    \E g \in AdminGate(users, authorization, token, now, pyjwt) :
       LET op == "handle_delete_doctor_by_id"
           arg == [authorization |-> authorization, token |-> token, id |-> id]
       IN  IF g.status # 200 THEN Refused(op, arg, g)
           ELSE /\ doctors' = SelectSeq(doctors, LAMBDA d : d._id # id)
                /\ last' = Response(op, arg, 200, NoValue,
                                    Document([deleted_count |-> Len(doctors) - Len(doctors')]))
                /\ UNCHANGED <<bookings, users, doctor_oid, payments, auth, inflight>>

handle_post_doctor(authorization, token, doctor) ==
    \E g \in AdminGate(users, authorization, token, now, pyjwt) :
       LET op == "handle_post_doctor"
           arg == [authorization |-> authorization, token |-> token, doctor |-> doctor]
       IN  IF g.status # 200 THEN Refused(op, arg, g)
           ELSE /\ doctor_oid < MaxDoctors
                /\ doctor_oid' = doctor_oid + 1
                /\ doctors' = Append(doctors, [doctor EXCEPT !._id = doctor_oid + 1])
                /\ last' = Response(op, arg, 200, NoValue,
                                    Document([doctor EXCEPT !._id = doctor_oid + 1]))
                /\ UNCHANGED <<bookings, users, payments, auth, inflight>>

\* Time passes.
AdvanceClock(t) ==
    /\ t > now
    /\ now' = t
    /\ last' = Pending("clock", [t |-> t])
    /\ UNCHANGED <<store, pyjwt, issued, inflight>>

(***************************************************************************)
(* Inputs.                                                                 *)
(***************************************************************************)

UserInputs ==
    {[name |-> "n", email |-> e, role |-> r] : e \in Emails, r \in {"admin", "patient"}}

\* One patient and one admin.
FewUserInputs ==
    {[name |-> "n", email |-> "a@x", role |-> "patient"],
     [name |-> "n", email |-> "b@x", role |-> "admin"]}

DoctorInputs == {[_id |-> 0, name |-> "Dr", email |-> "d@x", img |-> "img"]}

PaymentInputs ==
    {[paymentMethodId |-> "pm_1",
      booking |-> NewBooking("2024-05-01", "Cavity Filling", "9:00", "a@x")]}

FewBookingInputs ==
    { NewBooking("2024-05-01", "Cavity Filling", "9:00",  "a@x"),
      NewBooking("2024-05-01", "Cavity Filling", "10:00", "b@x") }

\* Tokens a client can present: those handed out, a token signed with another
\* key, and text that is no token.
ForgedTokens == {JwtWord("b@x", 10 * JWT_EXPIRATION_TIME, "another key")}
TokenInputs == {g.token : g \in issued} \cup ForgedTokens \cup {TextWord("garbage")}

Bearer(token) == Header(<<TextWord("Bearer"), token>>, FALSE)

\* Authorization values of every shape verify_jwt tells apart.
HeaderInputs ==
    {NoHeader, Header(<<>>, FALSE), Header(<<>>, TRUE), Header(<<TextWord("Bearer")>>, FALSE)}
    \cup {Header(<<TextWord(s), k>>, FALSE) : s \in {"Bearer", "bearer", "BEARER", "Basic"},
                                             k \in TokenInputs}
    \cup {Header(<<TextWord("Bearer"), k, TextWord("x")>>, FALSE) : k \in TokenInputs}

\* An absent authorization value, or a well-formed one with a token that was
\* handed out.
FewHeaderInputs == {NoHeader} \cup {Bearer(g.token) : g \in issued}

\* Tokens that were handed out, and a token signed with another key.
FewTokenInputs == {g.token : g \in issued} \cup ForgedTokens

\* Instants around the issue of a token and around the end of its validity.
ClockInstants ==
    (0..MaxTicks)
    \cup {WindowTicks - TicksPerSecond + k : k \in 0..(2 * TicksPerSecond + MaxTicks)}

\* An instant by which every token issued at the start has expired.
LateInstants == {WindowTicks + MaxTicks + TicksPerSecond + 1}

InitStore ==
    /\ bookings = <<>>
    /\ users = <<>>          \* no documents: the function with empty domain
    /\ doctors = <<>>
    /\ doctor_oid = 0
    /\ payments = <<>>
    /\ now = 0
    /\ issued = {}
    /\ inflight = [r \in Requests |-> Idle]
    /\ last = Pending("startup", NoBody)

Init == InitStore /\ pyjwt = "exp <= now"

\* The documents in the store.
Stored == Len(bookings) + Cardinality(DOMAIN users) + Len(doctors) + Len(payments)

\* Every handler, on a store of at most MaxStored documents.
Next ==
    \/ \E b \in FewBookingInputs : handle_post_booking_find_one("r1", b)
    \/ Stored < MaxStored /\ handle_post_booking_insert_one("r1")
    \/ handle_post_booking_return("r1")
    \/ handle_get_appointment_options("2024-05-01")
    \/ handle_get_v2_appointment_options("2024-05-01")
    \/ \E e \in Emails, k \in FewTokenInputs : handle_get_bookings(e, k)
    \/ handle_get_booking_by_id(1)
    \/ \E b \in FewBookingInputs : handle_create_payment_intent(b)
    \/ Stored < MaxStored /\ \E p \in PaymentInputs : handle_post_payment(p)
    \/ handle_get_appointment_specialty
    \/ \E e \in Emails : handle_get_jwt(e)
    \/ Stored < MaxStored /\ \E u \in FewUserInputs : handle_post_user(u)
    \/ \E e \in Emails : handle_get_user_admin_by_email(e)
    \/ \E g \in issued : handle_get_users(Bearer(g.token), g.token)
    \/ \E g \in issued, id \in UserIds :
          /\ id \in DOMAIN users \/ Stored < MaxStored
          /\ handle_put_user_admin_by_id(Bearer(g.token), g.token, id)
    \/ \E g \in issued : handle_get_doctors(Bearer(g.token), g.token)
    \/ \E g \in issued, id \in 1..MaxDoctors :
          handle_delete_doctor_by_id(Bearer(g.token), g.token, id)
    \/ Stored < MaxStored /\ \E g \in issued, d \in DoctorInputs :
          handle_post_doctor(Bearer(g.token), g.token, d)
    \/ \E t \in LateInstants : AdvanceClock(t)

Spec == Init /\ [][Next]_vars

\* Create-booking requests racing each other, and the two resolvers.
BookingNext ==
    \/ \E r \in Requests, b \in BookingInputs : handle_post_booking_find_one(r, b)
    \/ \E r \in Requests : handle_post_booking_insert_one(r)
    \/ \E r \in Requests : handle_post_booking_return(r)
    \/ \E d \in QueryDates : handle_get_appointment_options(d)
    \/ \E d \in QueryDates : handle_get_v2_appointment_options(d)

BookingSpec == Init /\ [][BookingNext]_vars

\* Tokens over time, under either expiry comparison of the jwt library.
TokenInit == InitStore /\ pyjwt \in {"exp < int(now)", "exp <= now"}

TokenNext ==
    \/ \E u \in FewUserInputs : handle_post_user(u)
    \/ \E e \in Emails : handle_get_jwt(e)
    \/ \E t \in ClockInstants : AdvanceClock(t)
    \/ \E e \in Emails, k \in TokenInputs \cup {Absent} : handle_get_bookings(e, k)

TokenSpec == TokenInit /\ [][TokenNext]_vars

\* The gate of the admin endpoints, on every shape of credentials.
GateNext ==
    \/ \E u \in FewUserInputs : handle_post_user(u)
    \/ \E e \in Emails : handle_get_jwt(e)
    \/ \E t \in LateInstants : AdvanceClock(t)
    \/ \E h \in HeaderInputs, k \in TokenInputs \cup {Absent} : handle_get_doctors(h, k)

GateSpec == Init /\ [][GateNext]_vars

\* The admin endpoints.
AdminNext ==
    \/ \E u \in UserInputs : handle_post_user(u)
    \/ \E e \in Emails : handle_get_jwt(e)
    \/ \E h \in FewHeaderInputs, k \in FewTokenInputs : handle_get_users(h, k)
    \/ \E h \in FewHeaderInputs, k \in FewTokenInputs, id \in UserIds :
          handle_put_user_admin_by_id(h, k, id)
    \/ \E h \in FewHeaderInputs, k \in FewTokenInputs : handle_get_doctors(h, k)
    \/ \E h \in FewHeaderInputs, k \in FewTokenInputs, id \in 1..MaxDoctors :
          handle_delete_doctor_by_id(h, k, id)
    \/ \E h \in FewHeaderInputs, k \in FewTokenInputs, d \in DoctorInputs :
          handle_post_doctor(h, k, d)

AdminSpec == Init /\ [][AdminNext]_vars

(***************************************************************************)
(* Claims.                                                                 *)
(***************************************************************************)

\* C1: in every reachable state, under create-booking requests interleaved at
\* the granularity of their store calls, the bookings collection holds at
\* most one booking per (email, treatment, appointmentDate) triple.
C1_UniqueTriple ==
    \A i, j \in DOMAIN bookings :
        ( /\ bookings[i].email = bookings[j].email
          /\ bookings[i].treatment = bookings[j].treatment
          /\ bookings[i].appointmentDate = bookings[j].appointmentDate ) => i = j

\* What the fetch-then-filter resolver answers in the current state.
V1Entries(date) ==
    Range(handle_get_appointment_options_result(appointment_options_collection, bookings, date))

\* C2: for every date, the store-side aggregation resolver returns the same
\* set of {name, remaining slots, price} entries as the fetch-then-filter
\* resolver does on the same stored options and bookings, the remaining slots
\* of each treatment in the option's original slot order.
C2_ResolversAgree ==
    last.op = "handle_get_v2_appointment_options" =>
        Range(last.body.list) = V1Entries(last.arg.data)

\* The slots of an option that no stored booking of that treatment on that
\* date takes, in the option's order.
OpenSlots(option, date) ==
    SelectSeq(option.slots,
              LAMBDA s : ~ \E i \in DOMAIN bookings :
                              /\ bookings[i].appointmentDate = date
                              /\ bookings[i].treatment = option.name
                              /\ bookings[i].slot = s)

BookedOn(option, date) ==
    \E i \in DOMAIN bookings : /\ bookings[i].appointmentDate = date
                               /\ bookings[i].treatment = option.name

\* C3: the fetch-then-filter resolver returns exactly one entry per stored
\* option, in the stored order, fully booked options included; the slots of
\* an entry are the option's slots in their original order less the slots of
\* the bookings of that date and treatment, so an option with no booking on
\* the date keeps its full slot list.
C3_ResolveV1 ==
    last.op = "handle_get_appointment_options" =>
        LET opts == appointment_options_collection
        IN  /\ DOMAIN last.body.list = DOMAIN opts
            /\ \A i \in DOMAIN opts :
                  /\ last.body.list[i].name = opts[i].name
                  /\ last.body.list[i].price = opts[i].price
                  /\ last.body.list[i].slots = OpenSlots(opts[i], last.arg.date)
                  /\ ~BookedOn(opts[i], last.arg.date) => last.body.list[i].slots = opts[i].slots

\* C3 witness: a resolve that returned a fully booked option with no slots
\* and, beside it, an option booked on another date only, with all its slots.
C3_Witness ==
    /\ last.op = "handle_get_appointment_options"
    /\ \E i \in DOMAIN last.body.list : last.body.list[i].slots = <<>>
    /\ \E i \in DOMAIN appointment_options_collection :
          /\ ~BookedOn(appointment_options_collection[i], last.arg.date)
          /\ \E j \in DOMAIN bookings :
                bookings[j].treatment = appointment_options_collection[i].name
          /\ last.body.list[i].slots = appointment_options_collection[i].slots

\* A status of the client-error class, to which Conflict (409) belongs.
ClientError(status) == status \in 400..499

\* C4: a create-booking request whose existence check runs while a booking
\* with the same (email, treatment, appointmentDate) is stored inserts
\* nothing and answers with a Conflict-class "already booked" signal, unlike
\* the answer for a created booking.
C4_DuplicateConflict ==
    [][ ( /\ last'.op = "handle_post_booking.find_one"
          /\ \E i \in DOMAIN bookings :
                /\ bookings[i].email = last'.arg.email
                /\ bookings[i].treatment = last'.arg.treatment
                /\ bookings[i].appointmentDate = last'.arg.appointmentDate )
        => ( /\ bookings' = bookings
             /\ inflight' = inflight
             /\ last'.detail = "You already have a booking on"
             /\ ClientError(last'.status) ) ]_vars

\* A token the server signed and that has not expired (under the expiry
\* comparison of current jwt releases).
ValidNow(token) == token.sig = "JWT_SECRET" /\ now < token.exp * TicksPerSecond

\* An authorization value made of the scheme "bearer", in any case, and one
\* token.
WellFormed(authorization) ==
    /\ authorization.given
    /\ Len(authorization.words) = 2
    /\ authorization.words[1].text \in {"Bearer", "bearer", "BEARER"}

AdminEmail(us, email) == \E i \in DOMAIN us : us[i].email = email /\ us[i].role = "admin"

AdminOps ==
    {"handle_get_users", "handle_put_user_admin_by_id", "handle_get_doctors",
     "handle_delete_doctor_by_id", "handle_post_doctor"}

C7_OwnBookingsOnly ==
    last.op = "handle_get_bookings" =>
        LET token == last.arg.token
            email == last.arg.email
        IN  /\ last.status = 200 =>
                  /\ ValidNow(token)
                  /\ token.email = email
                  /\ \A i \in DOMAIN last.body.list : last.body.list[i].email = email
                  /\ last.body.list = SelectSeq(bookings, LAMBDA b : b.email = email)
            /\ (ValidNow(token) /\ token.email # email) =>
                  /\ last.status = 403
                  /\ last.body = NoBody

\* C7 witness: a valid token of one email was refused the stored bookings of
\* another.
C7_Witness ==
    /\ last.op = "handle_get_bookings"
    /\ last.status = 403
    /\ ValidNow(last.arg.token)
    /\ \E i \in DOMAIN bookings : bookings[i].email = last.arg.email

\* C8: admin-promotion is an upsert. If a user document has the given id, its
\* role becomes "admin" and no document is added; if none has, exactly one
\* document with that id and role "admin" is added. Every other user document
\* is left as it was.
C8_PromotionUpsert ==
    [][ (last'.op = "handle_put_user_admin_by_id" /\ last'.status = 200) =>
          LET id == last'.arg.id
          IN  /\ \A i \in DOMAIN users : i # id => i \in DOMAIN users' /\ users'[i] = users[i]
              /\ DOMAIN users' = DOMAIN users \cup {id}
              /\ users'[id].role = "admin"
              /\ IF id \in DOMAIN users
                   THEN /\ users'[id].name = users[id].name
                        /\ users'[id].email = users[id].email
                   ELSE users'[id] = [name |-> NoValue, email |-> NoValue, role |-> "admin"]
        ]_vars

\* C8 witness: a promotion of an id that no document had created a document.
C8_Witness ==
    /\ last.op = "handle_put_user_admin_by_id"
    /\ last.status = 200
    /\ last.body.doc.upserted_id = last.arg.id
    /\ users[last.arg.id].name = NoValue
    /\ Cardinality(DOMAIN users) > 1

\* C10: no step removes a user document or changes its name or email; a step
\* changes the role of a user document only if it is the admin-promotion of
\* that document, and then to "admin"; a role "admin" stays.
C10_RoleOnlyByPromotion ==
    [][ \A i \in DOMAIN users :
          /\ i \in DOMAIN users'
          /\ users'[i].name = users[i].name
          /\ users'[i].email = users[i].email
          /\ users'[i].role # users[i].role =>
                /\ last'.op = "handle_put_user_admin_by_id"
                /\ last'.arg.id = i
                /\ users'[i].role = "admin"
          /\ users[i].role = "admin" => users'[i].role = "admin"
      ]_vars

\* C10 witness: a promotion has turned a patient into an admin.
C10_Witness ==
    /\ last.op = "handle_put_user_admin_by_id"
    /\ last.status = 200
    /\ last.body.doc.modified_count = 1
    /\ users[last.arg.id].role = "admin"
    /\ users[last.arg.id].email = "a@x"

\* C6 as stated: a token issued for a user's email verifies, yielding that
\* email, at every time strictly within 2 days of its issue, and fails
\* verification with 401 at every time after those 2 days.
C6_ExactWindow ==
    \A g \in issued :
        LET r == get_current_user(g.token, now, pyjwt)
        IN  /\ now < g.iat + WindowTicks => r.status = 200 /\ r.email = g.email
            /\ now > g.iat + WindowTicks => r.status = 401

\* C6 as amended: the token verifies, yielding the email it was issued for,
\* at every time up to 2 days less one second after its issue, and fails
\* verification with 401 at every time from 2 days and one second after it.
C6_WindowToTheSecond ==
    \A g \in issued :
        LET r == get_current_user(g.token, now, pyjwt)
        IN  /\ now + TicksPerSecond <= g.iat + WindowTicks =>
                  r.status = 200 /\ r.email = g.email
            /\ now >= g.iat + WindowTicks + TicksPerSecond =>
                  r.status = 401 /\ r.detail = "Invalid token: Signature has expired"

\* C6 witness: a token issued between two whole seconds was presented at
\* least 2 days and one second later and refused.
C6_Witness ==
    \E g \in issued :
        /\ g.iat % TicksPerSecond # 0
        /\ now >= g.iat + WindowTicks + TicksPerSecond
        /\ last.op = "handle_get_bookings"
        /\ last.arg.token = g.token
        /\ last.arg.email = g.email
        /\ last.status = 401

\* C9: identity verification answers 401 "unauthenticated" when the
\* authorization value is absent or is not the scheme "bearer" (in any case)
\* followed by one token, answers 401 "invalid token" when the token's
\* signature or expiry check fails, and otherwise yields the token's email;
\* the 403 of the admin role check is answered only once both the
\* authorization value and the token have been verified.
C9_VerifyOutcomes ==
    last.op = "handle_get_doctors" =>
        LET authorization == last.arg.authorization
            verified == verify_jwt(authorization, now, pyjwt)
        IN  /\ ~WellFormed(authorization) =>
                  /\ last.status = 401
                  /\ last.detail \in {"Not authenticated", "Invalid authorization header",
                                      "Invalid authentication scheme"}
                  /\ verified.status = 401
            /\ (WellFormed(authorization) /\ ~ValidNow(authorization.words[2])) =>
                  /\ last.status = 401
                  /\ last.detail \in {"Invalid token", "Invalid token: Signature has expired"}
                  /\ verified.status = 401
            /\ (WellFormed(authorization) /\ ValidNow(authorization.words[2])) =>
                  /\ verified.status = 200
                  /\ verified.email = authorization.words[2].email
                  /\ verified.email \in Emails
            /\ last.status = 403 =>
                  /\ WellFormed(authorization)
                  /\ ValidNow(authorization.words[2])
                  /\ ValidNow(last.arg.token)
                  /\ \/ \A i \in DOMAIN users : users[i].email # last.arg.token.email
                     \/ \E i \in DOMAIN users : /\ users[i].email = last.arg.token.email
                                                 /\ users[i].role # "admin"

\* C9 witness: the role check answered 403 to a request whose authorization
\* value used the scheme in lower case.
C9_Witness ==
    /\ last.op = "handle_get_doctors"
    /\ last.status = 403
    /\ last.arg.authorization.words[1].text = "bearer"

====
